---- MODULE Spec2Model ----
(***************************************************************************)
(* VShield: an IP whitelist gate for nginx/njs (src/VShield.js).           *)
(*                                                                         *)
(* The shared dictionary ngx.shared.vs_ip maps an address to an absolute   *)
(* expiry instant (ms) and carries a backing TTL per entry.  The handlers  *)
(* http_verify / stream_verify decide allow or deny, register / cancel     *)
(* change the caller's own entry, adminRegister / adminCancel /            *)
(* adminWhiteList work on an explicit address.                             *)
(*                                                                         *)
(* JavaScript numbers are modelled by the records of Num below: exact      *)
(* non-negative magnitudes below 10^18 in two limbs of nine decimal        *)
(* digits, a flag for a fractional part, and the classes "big" (finite,    *)
(* magnitude >= 10^18), "inf" and "nan".  Literals are kept to at most     *)
(* fifteen significant digits, where an IEEE double is exact.              *)
(***************************************************************************)
EXTENDS Integers, Sequences, FiniteSets, TLC

\* ------------------------------------------------------------------------
\* JavaScript values and numbers
\* ------------------------------------------------------------------------

LIMB == 10^9

NaN == [k |-> "nan", neg |-> FALSE, hi |-> 0, lo |-> 0, frac |-> FALSE]

Inf(neg) == [k |-> "inf", neg |-> neg, hi |-> 0, lo |-> 0, frac |-> FALSE]

Big(neg) == [k |-> "big", neg |-> neg, hi |-> 0, lo |-> 0, frac |-> FALSE]

Fin(neg, hi, lo, frac) == [k |-> "fin", neg |-> neg, hi |-> hi, lo |-> lo, frac |-> frac]

\* hi * 10^9 + lo, a non-negative integer number of milliseconds
Ms(hi, lo) == Fin(FALSE, hi, lo, FALSE)

Zero(neg) == Fin(neg, 0, 0, FALSE)

IsZero(n) == n.k = "fin" /\ n.hi = 0 /\ n.lo = 0 /\ ~n.frac

\* Number.isNaN
IsNaN(n) == n.k = "nan"

\* Number.isInteger: every finite double of magnitude >= 2^53 is an integer
IsInteger(n) == (n.k = "fin" /\ ~n.frac) \/ n.k = "big"

\* n > 0
IsPositive(n) == n.k # "nan" /\ ~n.neg /\ ~IsZero(n)

\* rank of the magnitude class, then limbs, then the fractional flag
MagLess(a, b) ==
    LET ra == CASE a.k = "fin" -> 0 [] a.k = "big" -> 1 [] a.k = "inf" -> 2
        rb == CASE b.k = "fin" -> 0 [] b.k = "big" -> 1 [] b.k = "inf" -> 2
    IN  \/ ra < rb
        \/ /\ ra = 0 /\ rb = 0
           /\ \/ a.hi < b.hi
              \/ a.hi = b.hi /\ a.lo < b.lo
              \/ a.hi = b.hi /\ a.lo = b.lo /\ ~a.frac /\ b.frac

\* a < b; false when either is NaN.  Two fractional values with the same
\* integer part, and two values of class "big", are not ordered by the
\* model: the handlers never compare such a pair.
Less(a, b) ==
    /\ a.k # "nan" /\ b.k # "nan"
    /\ \/ a.neg /\ ~b.neg /\ ~(IsZero(a) /\ IsZero(b))
       \/ ~a.neg /\ ~b.neg /\ MagLess(a, b)
       \/ a.neg /\ b.neg /\ MagLess(b, a)

\* a <= b for an integer b (the clock): a < b or a = b
LessEq(a, b) ==
    /\ a.k # "nan" /\ b.k # "nan"
    /\ \/ Less(a, b)
       \/ a = b
       \/ IsZero(a) /\ IsZero(b)

\* a + b for non-negative a, b, at most one of them fractional
Add(a, b) ==
    IF a.k = "inf" \/ b.k = "inf" THEN Inf(FALSE)
    ELSE IF a.k = "big" \/ b.k = "big" THEN Big(FALSE)
    ELSE LET lo == a.lo + b.lo
             c  == lo \div LIMB
             hi == a.hi + b.hi + c
         IN  IF hi >= LIMB THEN Big(FALSE)
             ELSE Fin(FALSE, hi, lo % LIMB, a.frac \/ b.frac)

\* a - b for a > b >= 0, b an integer below 10^18
Sub(a, b) ==
    IF a.k \in {"inf", "big"} THEN a
    ELSE LET borrow == IF a.lo < b.lo THEN 1 ELSE 0
         IN  Fin(FALSE, a.hi - b.hi - borrow, a.lo + borrow * LIMB - b.lo, a.frac)

\* ------------------------------------------------------------------------
\* Number(value): the conversions the handlers apply to query arguments and
\* to stored values.  A string is a sequence of one-character strings.
\* ------------------------------------------------------------------------

HexDigits == <<"0", "1", "2", "3", "4", "5", "6", "7", "8", "9",
               "a", "b", "c", "d", "e", "f">>

UpperHex == <<"0", "1", "2", "3", "4", "5", "6", "7", "8", "9",
              "A", "B", "C", "D", "E", "F">>

WhiteSpace == {" "}

\* value of a digit in a radix, -1 when c is no digit of that radix
DigitVal(c, radix) ==
    IF \E i \in 1..radix : HexDigits[i] = c \/ UpperHex[i] = c
    THEN (CHOOSE i \in 1..radix : HexDigits[i] = c \/ UpperHex[i] = c) - 1
    ELSE -1

AllDigits(s, radix) == \A i \in 1..Len(s) : DigitVal(s[i], radix) >= 0

\* first index of s holding a character of cs, 0 when there is none
IndexOf(s, cs) ==
    IF \E i \in 1..Len(s) : s[i] \in cs
    THEN CHOOSE i \in 1..Len(s) : s[i] \in cs /\ \A j \in 1..(i - 1) : s[j] \notin cs
    ELSE 0

Trim(s) ==
    IF \A i \in 1..Len(s) : s[i] \in WhiteSpace THEN <<>>
    ELSE LET a == CHOOSE i \in 1..Len(s) :
                      s[i] \notin WhiteSpace /\ \A j \in 1..(i - 1) : s[j] \in WhiteSpace
             b == CHOOSE i \in 1..Len(s) :
                      s[i] \notin WhiteSpace /\ \A j \in (i + 1)..Len(s) : s[j] \in WhiteSpace
         IN  SubSeq(s, a, b)

StripZeros(s) ==
    IF \A i \in 1..Len(s) : s[i] = "0" THEN <<>>
    ELSE SubSeq(s, CHOOSE i \in 1..Len(s) : s[i] # "0" /\ \A j \in 1..(i - 1) : s[j] = "0",
                Len(s))

\* the integer a digit string of at most nine decimal digits denotes
RECURSIVE SeqVal(_, _)
SeqVal(s, radix) ==
    IF s = <<>> THEN 0
    ELSE SeqVal(SubSeq(s, 1, Len(s) - 1), radix) * radix + DigitVal(s[Len(s)], radix)

\* s before / from its first k characters, k clamped to 0..Len(s)
Take(s, k) == SubSeq(s, 1, IF k < 0 THEN 0 ELSE IF k > Len(s) THEN Len(s) ELSE k)

Drop(s, k) == SubSeq(s, (IF k < 0 THEN 0 ELSE IF k > Len(s) THEN Len(s) ELSE k) + 1, Len(s))

Zeros(k) == [i \in 1..k |-> "0"]

\* s, read as a decimal fraction 0.s, is at least 0.t
FracAtLeast(s, t) ==
    LET n == IF Len(s) > Len(t) THEN Len(s) ELSE Len(t)
        ps == s \o Zeros(n - Len(s))
        pt == t \o Zeros(n - Len(t))
    IN  \/ ps = pt
        \/ \E i \in 1..n : /\ \A j \in 1..(i - 1) : ps[j] = pt[j]
                           /\ DigitVal(ps[i], 10) > DigitVal(pt[i], 10)

\* 0.17976931348623158 * 10^309 and above rounds to Infinity;
\* 0.2470328229206232 * 10^-323 and below rounds to zero
MaxDoubleDigits == <<"1", "7", "9", "7", "6", "9", "3", "1", "3", "4", "8",
                     "6", "2", "3", "1", "5", "8">>

HalfMinDoubleDigits == <<"2", "4", "7", "0", "3", "2", "8", "2", "2", "9", "2",
                         "0", "6", "2", "3", "2">>

\* the number 0.ds * 10^(Len(ds) + e10) for a digit string ds without
\* leading zeros, i.e. the integer ds scaled by 10^e10
FromDecimal(neg, digits, e10) ==
    LET ds == StripZeros(digits)
        intDigits == Len(ds) + e10
    IN  IF ds = <<>> THEN Zero(neg)
        ELSE IF intDigits > 309 \/ (intDigits = 309 /\ FracAtLeast(ds, MaxDoubleDigits))
             THEN Inf(neg)
        ELSE IF intDigits > 18 THEN Big(neg)
        ELSE IF intDigits < -323 \/ (intDigits = -323 /\ ~FracAtLeast(ds, HalfMinDoubleDigits))
             THEN Zero(neg)
        ELSE LET ip == IF e10 >= 0 THEN ds \o Zeros(e10) ELSE Take(ds, intDigits)
                 fp == IF e10 >= 0 THEN <<>> ELSE Drop(ds, intDigits)
                 hiS == Take(ip, Len(ip) - 9)
                 loS == Drop(ip, Len(ip) - 9)
             IN  Fin(neg, SeqVal(hiS, 10), SeqVal(loS, 10), StripZeros(fp) # <<>>)

\* the exponent of a literal, clamped: beyond four digits every literal
\* already is zero or infinite
ExpVal(s) ==
    LET neg == s # <<>> /\ s[1] = "-"
        ds == StripZeros(IF s # <<>> /\ s[1] \in {"+", "-"} THEN Tail(s) ELSE s)
        v == IF Len(ds) > 4 THEN 9999 ELSE SeqVal(ds, 10)
    IN  IF neg THEN 0 - v ELSE v

\* StrDecimalLiteral without its sign: digits [. digits] [e [sign] digits]
DecimalValue(neg, u) ==
    LET ePos == IndexOf(u, {"e", "E"})
        mant == IF ePos = 0 THEN u ELSE SubSeq(u, 1, ePos - 1)
        expS == IF ePos = 0 THEN <<>> ELSE SubSeq(u, ePos + 1, Len(u))
        expD == IF expS # <<>> /\ expS[1] \in {"+", "-"} THEN Tail(expS) ELSE expS
        dot == IndexOf(mant, {"."})
        ip == IF dot = 0 THEN mant ELSE SubSeq(mant, 1, dot - 1)
        fp == IF dot = 0 THEN <<>> ELSE SubSeq(mant, dot + 1, Len(mant))
        ok == /\ AllDigits(ip, 10) /\ AllDigits(fp, 10)
              /\ Len(ip) + Len(fp) >= 1
              /\ ePos # 0 => (expD # <<>> /\ AllDigits(expD, 10))
    IN  IF ok THEN FromDecimal(neg, ip \o fp, ExpVal(expS) - Len(fp)) ELSE NaN

\* 0x.., 0o.., 0b.. literals (no sign); exact for values below 2^28
RadixOf(t) ==
    IF Len(t) >= 2 /\ t[1] = "0"
    THEN CASE t[2] \in {"x", "X"} -> 16
           [] t[2] \in {"o", "O"} -> 8
           [] t[2] \in {"b", "B"} -> 2
           [] OTHER -> 0
    ELSE 0

RadixValue(t) ==
    LET radix == RadixOf(t)
        ds == SubSeq(t, 3, Len(t))
    IN  IF ds = <<>> \/ ~AllDigits(ds, radix) THEN NaN
        ELSE CASE Len(StripZeros(ds)) * (IF radix = 16 THEN 4 ELSE IF radix = 8 THEN 3 ELSE 1) <= 28
                  -> Ms(0, SeqVal(StripZeros(ds), radix))

InfinityWord == <<"I", "n", "f", "i", "n", "i", "t", "y">>

\* Number(s) for a string s (StringToNumber of ECMAScript)
StringToNumber(s) ==
    LET t == Trim(s)
        signed == t # <<>> /\ t[1] \in {"+", "-"}
        neg == t # <<>> /\ t[1] = "-"
        u == IF signed THEN Tail(t) ELSE t
    IN  IF t = <<>> THEN Zero(FALSE)
        ELSE IF RadixOf(t) # 0 THEN RadixValue(t)
        ELSE IF u = InfinityWord THEN Inf(neg)
        ELSE DecimalValue(neg, u)

\* a JavaScript value: undefined, a string or a number
Undefined == [t |-> "undefined", s |-> <<>>, n |-> NaN]

Str(s) == [t |-> "string", s |-> s, n |-> NaN]

NumV(n) == [t |-> "number", s |-> <<>>, n |-> n]

\* Number(v)
ToNumber(v) ==
    CASE v.t = "undefined" -> NaN
      [] v.t = "number" -> v.n
      [] v.t = "string" -> StringToNumber(v.s)

\* !v
Falsy(v) ==
    \/ v.t = "undefined"
    \/ v.t = "string" /\ v.s = <<>>
    \/ v.t = "number" /\ (IsNaN(v.n) \/ IsZero(v.n))


\* ------------------------------------------------------------------------
\* The shared dictionary (ngx.shared.vs_ip; SharedDictMock in the tests)
\* ------------------------------------------------------------------------

\* A dictionary state: map is the key -> entry table, calls the calls made
\* on it so far by the running handler.  An entry keeps the stored value,
\* the backing ttl it was set with and the instant the zone evicts it.
NoCalls == <<>>

SharedDict(map) == [map |-> map, calls |-> NoCalls]

\* set(key, value, ttl) at the instant now
DictSet(sh, key, value, ttl, now) ==
    [map |-> [k \in DOMAIN sh.map \cup {key} |->
                 IF k = key
                 THEN [value |-> value, ttl |-> ttl, evictAt |-> Add(now, ttl)]
                 ELSE sh.map[k]],
     calls |-> Append(sh.calls, [op |-> "set", key |-> key, value |-> value, ttl |-> ttl])]

\* get(key): the value read
DictGet(sh, key) == IF key \in DOMAIN sh.map THEN sh.map[key].value ELSE Undefined

\* the dictionary after get(key): the read is recorded
DictRead(sh, key) ==
    [sh EXCEPT !.calls = Append(@, [op |-> "get", key |-> key, value |-> Undefined,
                                    ttl |-> Zero(FALSE)])]

\* delete(key)
DictDelete(sh, key) ==
    [map |-> [k \in DOMAIN sh.map \ {key} |-> sh.map[k]],
     calls |-> Append(sh.calls, [op |-> "delete", key |-> key, value |-> Undefined,
                                 ttl |-> Zero(FALSE)])]

\* keys()
DictKeys(sh) == DOMAIN sh.map

\* ------------------------------------------------------------------------
\* src/VShield.js
\* ------------------------------------------------------------------------

\* 120 * 60 * 1000 ms
DEFAULT_TTL_MS == Ms(0, 120 * 60 * 1000)

\* 60 * 60 * 1000 ms
TTL_REFRESH_THRESHOLD_MS == Ms(0, 60 * 60 * 1000)

\* mutant: the integer test is dropped
isPositiveNumber(n) == IsPositive(n)

isPositiveInteger(n) == IsInteger(n) /\ IsPositive(n)

parseTtlMs(rawTtl) ==
    LET parsed == ToNumber(rawTtl)
    IN  IF isPositiveInteger(parsed) THEN parsed ELSE DEFAULT_TTL_MS

\* whiteList is undefined when the zone vs_ip is not declared
ensureStore(configured) == configured

\* mutant: the instant of the write is stored, without the ttl
expiryValueNoTtl(now, safeTtlMs) == now

\* the value written for an entry: the absolute expiry instant
expiryValue(now, safeTtlMs) == Add(now, safeTtlMs)

\* mutant: the zone is given twice the ttl of the value
storeIPDoubleBacking(sh, ip, ttlMs, now) ==
    LET safeTtlMs == parseTtlMs(ttlMs)
    IN  DictSet(sh, ip, NumV(expiryValue(now, safeTtlMs)), Add(safeTtlMs, safeTtlMs), now)

\* mutant: the zone is always given the default ttl
storeIPDefaultBacking(sh, ip, ttlMs, now) ==
    LET safeTtlMs == parseTtlMs(ttlMs)
    IN  DictSet(sh, ip, NumV(expiryValue(now, safeTtlMs)), DEFAULT_TTL_MS, now)

storeIP(sh, ip, ttlMs, now) ==
    LET safeTtlMs == parseTtlMs(ttlMs)
    IN  DictSet(sh, ip, NumV(expiryValue(now, safeTtlMs)), safeTtlMs, now)

\* mutant: expireAt < now
isExpiredStrict(expireAt, now) == Less(expireAt, now)

\* expireAt <= now: the entry has expired
isExpired(expireAt, now) == LessEq(expireAt, now)

\* mutant: (expireAt - now) < TTL_REFRESH_THRESHOLD_MS
needsRefreshStrict(expireAt, now) == Less(Sub(expireAt, now), TTL_REFRESH_THRESHOLD_MS)

\* mutant: every allowed check renews
needsRefreshAlways(expireAt, now) == TRUE

\* mutant: the comparison the other way round
needsRefreshReversed(expireAt, now) == LessEq(TTL_REFRESH_THRESHOLD_MS, Sub(expireAt, now))

\* (expireAt - now) <= TTL_REFRESH_THRESHOLD_MS: the entry is to be renewed
needsRefresh(expireAt, now) == LessEq(Sub(expireAt, now), TTL_REFRESH_THRESHOLD_MS)

\* isAllowed(ip): the decision and the dictionary it leaves
isAllowed(configured, sh, ip, now) ==
    IF Falsy(ip) \/ ~ensureStore(configured) THEN [ok |-> FALSE, sh |-> sh]
    ELSE LET expireAtRaw == DictGet(sh, ip.s)
             sh1 == DictRead(sh, ip.s)
             expireAt == ToNumber(expireAtRaw)
         IN  IF expireAtRaw.t = "undefined" THEN [ok |-> FALSE, sh |-> sh1]
             ELSE IF IsNaN(expireAt) THEN [ok |-> FALSE, sh |-> DictDelete(sh1, ip.s)]
             ELSE IF isExpired(expireAt, now) THEN [ok |-> FALSE, sh |-> DictDelete(sh1, ip.s)]
             ELSE IF needsRefresh(expireAt, now)
                  THEN [ok |-> TRUE, sh |-> storeIP(sh1, ip.s, NumV(DEFAULT_TTL_MS), now)]
             ELSE [ok |-> TRUE, sh |-> sh1]

\* What a handler did with its request or session object: the r.return
\* calls, the response headers set, the r.log and r.error lines, the
\* allow() / deny() calls of a stream session, and an uncaught exception.
Text(t) == [pre |-> t, ip |-> <<>>, post |-> "", rows |-> <<>>]

\* `${prefix}${ip}` and `${ip}${suffix}`
Prefixed(prefix, ip) == [pre |-> prefix, ip |-> ip, post |-> "", rows |-> <<>>]

Suffixed(ip, suffix) == [pre |-> "", ip |-> ip, post |-> suffix, rows |-> <<>>]

\* JSON.stringify(result)
Json(rows) == [pre |-> "", ip |-> <<>>, post |-> "", rows |-> rows]

NoOutput ==
    [returns |-> <<>>, headersOut |-> <<>>, logs |-> <<>>, errors |-> <<>>,
     decisions |-> <<>>, thrown |-> "none"]

Return(out, status, body) ==
    [out EXCEPT !.returns = Append(@, [status |-> status, body |-> body])]

Log(out, line) == [out EXCEPT !.logs = Append(@, line)]

Error(out, line) == [out EXCEPT !.errors = Append(@, line)]

SetHeader(out, name, value) ==
    [out EXCEPT !.headersOut = Append(@, [name |-> name, value |-> value])]

Decide(out, d) == [out EXCEPT !.decisions = Append(@, d)]

Result(sh, out) == [sh |-> sh, out |-> out]

NotConfigured(sh) == Result(sh, Return(NoOutput, 500, Text("VShield storage is not configured")))

\* mutant: the allow branch without its return statement
http_verifyFallThrough(configured, sh, r, now) ==
    IF ~ensureStore(configured)
    THEN Result(sh, Return(Error(NoOutput, Text("vs_ip shared dict is not configured")),
                           500, Text("VShield storage is not configured")))
    ELSE LET clientIP == r.remoteAddress
             a == isAllowed(configured, sh, clientIP, now)
             allowed == IF a.ok
                        THEN Return(Log(NoOutput, Prefixed("http_verify allowed IP address: ", clientIP.s)),
                                    200, Text("OK"))
                        ELSE NoOutput
         IN  Result(a.sh, Return(Error(allowed, Prefixed("http_verify denied IP address: ", clientIP.s)),
                                 403, Text("Forbidden")))

http_verify(configured, sh, r, now) ==
    IF ~ensureStore(configured)
    THEN Result(sh, Return(Error(NoOutput, Text("vs_ip shared dict is not configured")),
                           500, Text("VShield storage is not configured")))
    ELSE LET clientIP == r.remoteAddress
             a == isAllowed(configured, sh, clientIP, now)
         IN  IF a.ok
             THEN Result(a.sh, Return(Log(NoOutput, Prefixed("http_verify allowed IP address: ", clientIP.s)),
                                      200, Text("OK")))
             ELSE Result(a.sh, Return(Error(NoOutput, Prefixed("http_verify denied IP address: ", clientIP.s)),
                                      403, Text("Forbidden")))

\* mutant: a check that reads the entry and never renews or deletes it
stream_verifyReadOnly(configured, sh, s, now) ==
    IF ~ensureStore(configured)
    THEN Result(sh, Decide(Error(NoOutput, Text("vs_ip shared dict is not configured")), "deny"))
    ELSE LET clientIP == s.remoteAddress
             a == isAllowed(configured, sh, clientIP, now)
         IN  IF a.ok
             THEN Result(sh, Decide(Log(NoOutput, Prefixed("stream_verify allowed IP address: ", clientIP.s)),
                                    "allow"))
             ELSE Result(sh, Decide(Error(NoOutput, Prefixed("stream_verify denied IP address: ", clientIP.s)),
                                    "deny"))

stream_verify(configured, sh, s, now) ==
    IF ~ensureStore(configured)
    THEN Result(sh, Decide(Error(NoOutput, Text("vs_ip shared dict is not configured")), "deny"))
    ELSE LET clientIP == s.remoteAddress
             a == isAllowed(configured, sh, clientIP, now)
         IN  IF a.ok
             THEN Result(a.sh, Decide(Log(NoOutput, Prefixed("stream_verify allowed IP address: ", clientIP.s)),
                                      "allow"))
             ELSE Result(a.sh, Decide(Error(NoOutput, Prefixed("stream_verify denied IP address: ", clientIP.s)),
                                      "deny"))

\* mutant: const clientIP = r.args.ip || r.remoteAddress
selfAddressOrArg(r) == IF Falsy(r.args.ip) THEN r.remoteAddress ELSE r.args.ip

\* const clientIP = r.remoteAddress
selfAddress(r) == r.remoteAddress

\* const clientIP = r.args.ip
targetAddress(r) == r.args.ip

\* mutant: register without the check of the source address
registerAnyAddress(configured, sh, r, now) ==
    IF ~ensureStore(configured) THEN NotConfigured(sh)
    ELSE LET clientIP == selfAddress(r)
         IN  Result(storeIP(sh, clientIP.s, NumV(DEFAULT_TTL_MS), now),
                    Return(NoOutput, 200, Suffixed(clientIP.s, " is registered")))

register(configured, sh, r, now) ==
    IF ~ensureStore(configured) THEN NotConfigured(sh)
    ELSE LET clientIP == selfAddress(r)
         IN  IF Falsy(clientIP) THEN Result(sh, Return(NoOutput, 400, Text("Missing client IP")))
             ELSE Result(storeIP(sh, clientIP.s, NumV(DEFAULT_TTL_MS), now),
                         Return(NoOutput, 200, Suffixed(clientIP.s, " is registered")))

\* mutant: cancel that reports an address without an entry as an error
cancelRegisteredOnly(configured, sh, r, now) ==
    IF ~ensureStore(configured) THEN NotConfigured(sh)
    ELSE LET clientIP == selfAddress(r)
         IN  IF Falsy(clientIP) THEN Result(sh, Return(NoOutput, 400, Text("Missing client IP")))
             ELSE IF clientIP.s \notin DictKeys(sh)
                  THEN Result(sh, Return(NoOutput, 404, Suffixed(clientIP.s, " is not registered")))
             ELSE Result(DictDelete(sh, clientIP.s),
                         Return(NoOutput, 200, Suffixed(clientIP.s, " is unregistered")))

cancel(configured, sh, r, now) ==
    IF ~ensureStore(configured) THEN NotConfigured(sh)
    ELSE LET clientIP == selfAddress(r)
         IN  IF Falsy(clientIP) THEN Result(sh, Return(NoOutput, 400, Text("Missing client IP")))
             ELSE Result(DictDelete(sh, clientIP.s),
                         Return(NoOutput, 200, Suffixed(clientIP.s, " is unregistered")))

\* new Date(expireAt).toISOString(): a time value beyond +-8.64e15 ms, or
\* not finite, is an invalid date, for which toISOString throws RangeError.
MAX_TIME_HI == 864 * 10^4

ValidTime(n) ==
    /\ n.k = "fin"
    /\ \/ n.hi < MAX_TIME_HI
       \/ n.hi = MAX_TIME_HI /\ n.lo = 0 /\ ~n.frac

\* the rendered timestamp of a valid time value: its integer millisecond
\* count (ToIntegerOrInfinity drops the fraction), which the ISO-8601 text
\* renders one-to-one; the calendar arithmetic is not modelled
toISOString(n) == [iso |-> Fin(n.neg /\ (n.hi # 0 \/ n.lo # 0), n.hi, n.lo, FALSE)]

\* the order keys() lists a set of keys in
RECURSIVE KeyOrder(_)
KeyOrder(ks) ==
    IF ks = {} THEN <<>>
    ELSE LET k == CHOOSE x \in ks : TRUE IN <<k>> \o KeyOrder(ks \ {k})

\* the loop of adminWhiteList over the keys left, result the rows so far
RECURSIVE listRows(_, _, _)
listRows(sh, keys, result) ==
    IF keys = <<>> THEN [sh |-> sh, result |-> result, thrown |-> "none"]
    ELSE LET ip == Head(keys)
             expireAt == ToNumber(DictGet(sh, ip))
             sh1 == DictRead(sh, ip)
         IN  IF IsNaN(expireAt) THEN listRows(sh1, Tail(keys), result)
             ELSE IF ~ValidTime(expireAt)
                  THEN [sh |-> sh1, result |-> result, thrown |-> "RangeError"]
             ELSE listRows(sh1, Tail(keys),
                           Append(result, [ip |-> ip, expireAt |-> toISOString(expireAt)]))

adminWhiteList(configured, sh, r, now) ==
    IF ~ensureStore(configured) THEN NotConfigured(sh)
    ELSE LET l == listRows(sh, KeyOrder(DictKeys(sh)), <<>>)
         IN  IF l.thrown # "none" THEN Result(l.sh, [NoOutput EXCEPT !.thrown = l.thrown])
             ELSE Result(l.sh,
                         Return(SetHeader(NoOutput, "Content-Type", "application/json; charset=utf-8"),
                                200, Json(l.result)))

adminRegister(configured, sh, r, now) ==
    IF ~ensureStore(configured) THEN NotConfigured(sh)
    ELSE LET clientIP == targetAddress(r)
         IN  IF Falsy(clientIP)
             THEN Result(sh, Return(NoOutput, 400, Text("Missing query parameter: ip")))
             ELSE LET ttlMs == parseTtlMs(r.args.timeout)
                  IN  Result(storeIP(sh, clientIP.s, NumV(ttlMs), now),
                             Return(NoOutput, 200, Suffixed(clientIP.s, " is registered")))

adminCancel(configured, sh, r, now) ==
    IF ~ensureStore(configured) THEN NotConfigured(sh)
    ELSE LET clientIP == targetAddress(r)
         IN  IF Falsy(clientIP)
             THEN Result(sh, Return(NoOutput, 400, Text("Missing query parameter: ip")))
             ELSE Result(DictDelete(sh, clientIP.s),
                         Return(NoOutput, 200, Suffixed(clientIP.s, " is unregistered")))


\* ------------------------------------------------------------------------
\* The state machine: one action per entry point, the clock and the zone's
\* own eviction.  A handler runs to completion at one clock instant.
\* ------------------------------------------------------------------------

VARIABLES
    configured,  \* the zone vs_ip is declared (whiteList is defined)
    whiteList,   \* the dictionary: key -> [value, ttl, evictAt]
    now,         \* Date.now()
    last,        \* the last handler call: request, instant, dictionary before
                 \* and after, dictionary calls, output
    hist,        \* per address: the registrations and renewals so far
    nOps,        \* handler calls so far
    nTicks,      \* clock steps so far
    procs        \* per worker process: the handler call it is in, and where

vars == <<configured, whiteList, now, last, hist, nOps, nTicks, procs>>

MaxOps == 3

MaxTicks == 2

\* the clock steps: one hour, the renewal threshold and half the default TTL
ClockSteps == {Ms(0, 3600000)}

\* the clock at the start, 1,700,000,000,000 ms as in the tests
StartTime == Ms(1700, 0)

IP1 == <<"1", "0", ".", "0", ".", "0", ".", "1">>

IP2 == <<"1", "0", ".", "0", ".", "0", ".", "2">>

\* r.remoteAddress: an address, or empty when the transport gave none
RemoteAddresses == {Str(IP1), Str(<<>>)}

\* r.args.timeout
RawTimeouts ==
    { Undefined,
      Str(<<"6", "0", "0", "0", "0", "0">>),
      Str(<<"a", "b", "c">>),
      Str(<<"0">>),
      Str(<<"-", "5">>),
      Str(<<"1", ".", "5">>),
      Str(<<"9", "e", "1", "5">>) }

\* the addresses checks are made of: hist follows these
Checked == {a.s : a \in RemoteAddresses} \ {<<>>}

NoArgs == [ip |-> Undefined, timeout |-> Undefined]

\* r.variables: vshield_user is the identity the gateway resolved, if any
Anonymous == [vshield_user |-> Undefined]

Alice == [vshield_user |-> Str(<<"a", "l", "i", "c", "e">>)]

\* requests to register: the query string is the caller's to choose
SelfRequests ==
    [remoteAddress : RemoteAddresses,
     args : {NoArgs, [ip |-> Str(IP2), timeout |-> Str(<<"6", "0", "0", "0", "0", "0">>)]},
     variables : {Anonymous}]
    \cup [remoteAddress : RemoteAddresses, args : {NoArgs}, variables : {Alice}]

VerifyRequests == [remoteAddress : RemoteAddresses, args : {NoArgs}, variables : {Anonymous}]

AdminRegisterRequests ==
    [remoteAddress : {Str(IP1)},
     args : [ip : {Str(IP1)}, timeout : RawTimeouts]
            \cup [ip : {Str(IP2)},
                  timeout : {Undefined, Str(<<"6", "0", "0", "0", "0", "0">>)}]
            \cup [ip : {Str(<<>>), Undefined}, timeout : {Undefined}],
     variables : {Anonymous}]
    \cup [remoteAddress : {Str(IP1)},
          args : {[ip |-> Str(IP2), timeout |-> Str(<<"6", "0", "0", "0", "0", "0">>)]},
          variables : {Alice}]

AdminCancelRequests ==
    [remoteAddress : {Str(IP1)},
     args : [ip : {Str(IP1), Str(IP2), Str(<<>>), Undefined}, timeout : {Undefined}],
     variables : {Anonymous}]

AdminListRequests == [remoteAddress : {Str(IP1)}, args : {NoArgs}, variables : {Anonymous}]

SelfOps == {"register", "cancel"}

AdminOps == {"adminRegister", "adminCancel"}

CheckOps == {"http_verify", "stream_verify"}

\* the address an operation is about
Subject(op, r) == IF op \in AdminOps THEN r.args.ip ELSE r.remoteAddress

\* the timeout a request of the model's input set denotes, by hand: a
\* positive integer number of milliseconds, or none
NoTimeout == Zero(FALSE)

DenotedTimeout(raw) ==
    CASE raw = Str(<<"6", "0", "0", "0", "0", "0">>) -> Ms(0, 600000)
      [] raw = Str(<<"9", "e", "1", "5">>) -> Ms(9000000, 0)
      [] raw \in {Undefined, Str(<<"a", "b", "c">>), Str(<<"0">>),
                  Str(<<"-", "5">>), Str(<<"1", ".", "5">>)} -> NoTimeout

\* the TTL a registration is to use: 7,200,000 ms unless adminRegister is
\* given a timeout
RegistrationTtl(op, r) ==
    IF op = "adminRegister" /\ DenotedTimeout(r.args.timeout) # NoTimeout
    THEN DenotedTimeout(r.args.timeout)
    ELSE Ms(0, 7200000)

NoHistory ==
    [live |-> FALSE, regAt |-> Zero(FALSE), regTtl |-> Zero(FALSE),
     deadline |-> Zero(FALSE), renewed |-> FALSE]

Later(a, b) == IF Less(a, b) THEN b ELSE a

\* hist after the call of op with request r at instant t that made `calls`
Track(h, op, r, t, calls) ==
    LET a == Subject(op, r)
    IN  IF ~configured \/ Falsy(a) \/ a.s \notin Checked THEN h
        ELSE CASE op \in {"register", "adminRegister"} ->
                    [h EXCEPT ![a.s] =
                        [live |-> TRUE, regAt |-> t, regTtl |-> RegistrationTtl(op, r),
                         deadline |-> Later(@.deadline, Add(t, RegistrationTtl(op, r))),
                         renewed |-> FALSE]]
               [] op \in {"cancel", "adminCancel"} -> [h EXCEPT ![a.s] = NoHistory]
               [] op \in CheckOps ->
                    [h EXCEPT ![a.s].renewed =
                        @ \/ \E i \in 1..Len(calls) : calls[i].op = "set"]
               [] OTHER -> h

\* last.prev: what the call before was, when it was a check of a lapsed
\* registration or a cancellation, and the address it was about
NoNote == [note |-> "none", subject |-> Undefined]

NoCall ==
    [op |-> "none", r |-> [remoteAddress |-> Str(<<>>), args |-> NoArgs, variables |-> Anonymous],
     at |-> StartTime, pre |-> <<>>, post |-> <<>>, calls |-> NoCalls,
     out |-> NoOutput, before |-> NoHistory,
     prev |-> NoNote]

\* the worker processes of nginx that share the zone
Workers == {"w1", "w2"}

\* a worker that is in no handler call
Idle ==
    [pc |-> "idle", op |-> "none", raw |-> Undefined, ts |-> Zero(FALSE),
     ok |-> FALSE, onValid |-> TRUE]

Init ==
    /\ configured \in BOOLEAN
    /\ whiteList = <<>>
    /\ now = StartTime
    /\ last = NoCall
    /\ hist = [a \in Checked |-> NoHistory]
    /\ nOps = 0
    /\ nTicks = 0
    /\ procs = [w \in Workers |-> Idle]

\* the registration of h has run out at instant t and was not renewed
Lapsed(h, t) == h.live /\ ~h.renewed /\ LessEq(Add(h.regAt, h.regTtl), t)

\* the bookkeeping every handler action shares: res is what the handler
\* returned for request r
Handled(op, r, res) ==
    /\ nOps' = nOps + 1
    /\ whiteList' = res.sh.map
    /\ hist' = Track(hist, op, r, now, res.sh.calls)
    /\ last' = [op |-> op, r |-> r, at |-> now, pre |-> whiteList,
                post |-> res.sh.map, calls |-> res.sh.calls, out |-> res.out,
                before |-> IF Subject(op, r).s \in Checked
                           THEN hist[Subject(op, r).s] ELSE NoHistory,
                prev |-> CASE last.op \in CheckOps /\ Lapsed(last.before, last.at) ->
                                  [note |-> "lapsed", subject |-> Subject(last.op, last.r)]
                           [] last.op \in {"cancel", "adminCancel"} ->
                                  [note |-> "cancelled", subject |-> Subject(last.op, last.r)]
                           [] OTHER -> NoNote]
    /\ UNCHANGED <<configured, now, nTicks, procs>>

HttpVerify ==
    /\ nOps < MaxOps
    /\ \E r \in VerifyRequests :
          Handled("http_verify", r, http_verify(configured, SharedDict(whiteList), r, now))

StreamVerify ==
    /\ nOps < MaxOps
    /\ \E s \in VerifyRequests :
          Handled("stream_verify", s, stream_verify(configured, SharedDict(whiteList), s, now))

Register ==
    /\ nOps < MaxOps
    /\ \E r \in SelfRequests :
          Handled("register", r, register(configured, SharedDict(whiteList), r, now))

Cancel ==
    /\ nOps < MaxOps
    /\ \E r \in VerifyRequests :
          Handled("cancel", r, cancel(configured, SharedDict(whiteList), r, now))

AdminWhiteList ==
    /\ nOps < MaxOps
    /\ \E r \in AdminListRequests :
          Handled("adminWhiteList", r, adminWhiteList(configured, SharedDict(whiteList), r, now))

AdminRegister ==
    /\ nOps < MaxOps
    /\ \E r \in AdminRegisterRequests :
          Handled("adminRegister", r, adminRegister(configured, SharedDict(whiteList), r, now))

AdminCancel ==
    /\ nOps < MaxOps
    /\ \E r \in AdminCancelRequests :
          Handled("adminCancel", r, adminCancel(configured, SharedDict(whiteList), r, now))

\* time passes
Tick ==
    /\ nTicks < MaxTicks
    /\ \E d \in ClockSteps : now' = Add(now, d)
    /\ nTicks' = nTicks + 1
    /\ UNCHANGED <<configured, whiteList, last, hist, nOps, procs>>

\* the zone drops an entry whose backing ttl has elapsed
Evict ==
    /\ \E k \in DOMAIN whiteList :
          /\ LessEq(whiteList[k].evictAt, now)
          /\ whiteList' = [j \in DOMAIN whiteList \ {k} |-> whiteList[j]]
    /\ UNCHANGED <<configured, now, last, hist, nOps, nTicks, procs>>

Next ==
    \/ HttpVerify
    \/ StreamVerify
    \/ Register
    \/ Cancel
    \/ AdminWhiteList
    \/ AdminRegister
    \/ AdminCancel
    \/ Tick
    \/ Evict

Spec == Init /\ [][Next]_vars


\* ------------------------------------------------------------------------
\* The worker processes.  nginx runs the handlers in several worker
\* processes over the one shared zone: a call of the zone (get, set,
\* delete) is atomic, a handler is not, so between the get of isAllowed,
\* its Date.now() and its delete or set another worker's call may land and
\* the clock may move.  Each worker makes one call about the address IP1.
\* ------------------------------------------------------------------------

ConcOps == {"http_verify", "stream_verify", "register", "cancel"}

ConcRequest == [remoteAddress |-> Str(IP1), args |-> NoArgs, variables |-> Anonymous]

\* one millisecond, the resolution of Date.now()
Millisecond == Ms(0, 1)

\* the life the entry of IP1 has left when the workers start: none (expired
\* and not yet evicted), the last millisecond, the renewal threshold
Remaining == {Zero(FALSE), Millisecond, TTL_REFRESH_THRESHOLD_MS}

\* the dictionary after register() of ip at the instant t
RegisteredAt(ip, t) == storeIP(SharedDict(<<>>), ip, NumV(DEFAULT_TTL_MS), t).map

\* hist for an address registered at the instant t
HistoryOf(t) ==
    [live |-> TRUE, regAt |-> t, regTtl |-> DEFAULT_TTL_MS,
     deadline |-> Add(t, DEFAULT_TTL_MS), renewed |-> FALSE]

InitConc ==
    /\ configured = TRUE
    /\ now = StartTime
    /\ \/ whiteList = <<>> /\ hist = [a \in Checked |-> NoHistory]
       \/ \E left \in Remaining :
             LET t == Sub(Add(StartTime, left), DEFAULT_TTL_MS)
             IN  /\ whiteList = RegisteredAt(IP1, t)
                 /\ hist = [a \in Checked |-> IF a = IP1 THEN HistoryOf(t) ELSE NoHistory]
    /\ last = NoCall
    /\ nOps = 0
    /\ nTicks = 0
    /\ procs = [w \in Workers |-> Idle]

\* the zone holds an entry of key that has not expired
HoldsValid(key) ==
    /\ key \in DOMAIN whiteList
    /\ whiteList[key].value.t = "number"
    /\ Less(now, whiteList[key].value.n)

\* worker w took a step of its call: p is its state after it, sh the zone
\* after it with the zone calls of the step
Stepped(w, p, sh) ==
    /\ procs' = [procs EXCEPT ![w] = [p EXCEPT !.onValid = @ /\ HoldsValid(IP1)]]
    /\ whiteList' = sh.map
    /\ hist' = Track(hist, procs[w].op, ConcRequest, now, sh.calls)
    /\ last' = [NoCall EXCEPT !.op = procs[w].op, !.r = ConcRequest, !.at = now,
                              !.pre = whiteList, !.post = sh.map, !.calls = sh.calls,
                              !.before = hist[IP1]]
    /\ UNCHANGED <<configured, now, nOps, nTicks>>

\* a request arrives at worker w: the handler passes ensureStore() and the
\* tests of the address, and stands before its first call of the zone
BeginCall ==
    /\ nOps < MaxOps
    /\ \E w \in Workers, op \in ConcOps :
          /\ procs[w].pc = "idle"
          /\ procs' = [procs EXCEPT ![w] =
                          [Idle EXCEPT !.op = op,
                                       !.pc = CASE op \in CheckOps -> "get"
                                                [] op = "register" -> "store"
                                                [] op = "cancel" -> "remove"]]
          /\ nOps' = nOps + 1
          /\ UNCHANGED <<configured, whiteList, now, last, hist, nTicks>>

\* isAllowed: const expireAtRaw = whiteList.get(ip), denied when undefined
CheckGet ==
    \E w \in Workers :
        /\ procs[w].pc = "get"
        /\ LET sh == SharedDict(whiteList)
               expireAtRaw == DictGet(sh, IP1)
           IN  Stepped(w, [procs[w] EXCEPT
                              !.raw = expireAtRaw,
                              !.pc = IF expireAtRaw.t = "undefined" THEN "done" ELSE "clock"],
                       DictRead(sh, IP1))

\* isAllowed: Number(expireAtRaw), const now = Date.now(), and the branch
CheckClock ==
    \E w \in Workers :
        /\ procs[w].pc = "clock"
        /\ LET expireAt == ToNumber(procs[w].raw)
           IN  Stepped(w, [procs[w] EXCEPT
                              !.pc = CASE IsNaN(expireAt) -> "purge"
                                       [] isExpired(expireAt, now) -> "purge"
                                       [] needsRefresh(expireAt, now) -> "renew"
                                       [] OTHER -> "done",
                              !.ok = ~IsNaN(expireAt) /\ ~isExpired(expireAt, now)],
                       SharedDict(whiteList))

\* isAllowed: whiteList.delete(ip); return false
CheckPurge ==
    \E w \in Workers :
        /\ procs[w].pc = "purge"
        /\ Stepped(w, [procs[w] EXCEPT !.pc = "done", !.ok = FALSE],
                   DictDelete(SharedDict(whiteList), IP1))

\* isAllowed: storeIP(ip, DEFAULT_TTL_MS); return true
CheckRenew ==
    \E w \in Workers :
        /\ procs[w].pc = "renew"
        /\ Stepped(w, [procs[w] EXCEPT !.pc = "done", !.ok = TRUE, !.ts = now],
                   storeIP(SharedDict(whiteList), IP1, NumV(DEFAULT_TTL_MS), now))

\* register: storeIP(clientIP, DEFAULT_TTL_MS); r.return(200, ...)
RegisterStore ==
    \E w \in Workers :
        /\ procs[w].pc = "store"
        /\ Stepped(w, [procs[w] EXCEPT !.pc = "done", !.ok = TRUE, !.ts = now],
                   storeIP(SharedDict(whiteList), IP1, NumV(DEFAULT_TTL_MS), now))

\* cancel: whiteList.delete(clientIP); r.return(200, ...)
CancelDelete ==
    \E w \in Workers :
        /\ procs[w].pc = "remove"
        /\ Stepped(w, [procs[w] EXCEPT !.pc = "done", !.ok = TRUE],
                   DictDelete(SharedDict(whiteList), IP1))

\* the clock moves on by a millisecond
Elapse ==
    /\ nTicks < MaxTicks
    /\ now' = Add(now, Millisecond)
    /\ nTicks' = nTicks + 1
    /\ UNCHANGED <<configured, whiteList, last, hist, nOps, procs>>

NextConc ==
    \/ BeginCall
    \/ CheckGet
    \/ CheckClock
    \/ CheckPurge
    \/ CheckRenew
    \/ RegisterStore
    \/ CancelDelete
    \/ Elapse
    \/ Evict

SpecConc == InitConc /\ [][NextConc]_vars


\* ------------------------------------------------------------------------
\* Time and the zone's eviction under fairness.  The clock goes on for as
\* long as an entry has not expired, and the zone does evict an entry whose
\* ttl has elapsed; the handlers are called as in Spec, with the TTLs the
\* clock of the model can outlast (7,200,000 and 600,000 ms).
\* ------------------------------------------------------------------------

LiveRequest(ip) == [remoteAddress |-> Str(ip), args |-> NoArgs, variables |-> Anonymous]

LiveAdminRequest ==
    [remoteAddress |-> Str(IP1),
     args |-> [ip |-> Str(IP2), timeout |-> Str(<<"6", "0", "0", "0", "0", "0">>)],
     variables |-> Anonymous]

InitLive ==
    /\ configured = TRUE
    /\ whiteList = <<>>
    /\ now = StartTime
    /\ last = NoCall
    /\ hist = [a \in Checked |-> NoHistory]
    /\ nOps = 0
    /\ nTicks = 0
    /\ procs = [w \in Workers |-> Idle]

LiveRegister ==
    /\ nOps < MaxOps
    /\ Handled("register", LiveRequest(IP1),
               register(configured, SharedDict(whiteList), LiveRequest(IP1), now))

LiveAdminRegister ==
    /\ nOps < MaxOps
    /\ Handled("adminRegister", LiveAdminRequest,
               adminRegister(configured, SharedDict(whiteList), LiveAdminRequest, now))

\* the checks are of IP1; no check ever reads the entry of IP2
LiveVerify ==
    /\ nOps < MaxOps
    /\ Handled("http_verify", LiveRequest(IP1),
               http_verify(configured, SharedDict(whiteList), LiveRequest(IP1), now))

\* an entry of the zone has not reached its expiresAt
Unexpired == \E k \in DOMAIN whiteList : Less(now, whiteList[k].value.n)

\* time passes: counted up to MaxTicks, and beyond for as long as an entry
\* has not expired
Passing ==
    /\ nTicks < MaxTicks \/ Unexpired
    /\ \E d \in ClockSteps : now' = Add(now, d)
    /\ nTicks' = IF nTicks < MaxTicks THEN nTicks + 1 ELSE nTicks
    /\ UNCHANGED <<configured, whiteList, last, hist, nOps, procs>>

NextLive ==
    \/ LiveRegister
    \/ LiveAdminRegister
    \/ LiveVerify
    \/ Passing
    \/ Evict

SpecLive == InitLive /\ [][NextLive]_vars /\ WF_vars(Passing) /\ WF_vars(Evict)


\* ------------------------------------------------------------------------
\* Claims.  Each is stated about the last handler call: its request, the
\* instant it ran at, the dictionary before (last.pre) and after
\* (last.post), the dictionary calls it made and its output.
\* ------------------------------------------------------------------------

LastSubject == Subject(last.op, last.r)

LastKey == LastSubject.s

Returned(status) ==
    /\ last.out.thrown = "none"
    /\ Len(last.out.returns) = 1
    /\ last.out.returns[1].status = status

LastAllows ==
    \/ last.op = "http_verify" /\ Returned(200)
    \/ last.op = "stream_verify" /\ last.out.decisions = <<"allow">>

LastDenies ==
    \/ /\ last.op = "http_verify"
       /\ last.out.thrown = "none"
       /\ Len(last.out.returns) = 1
       /\ last.out.returns[1].status \notin 200..299
    \/ last.op = "stream_verify" /\ last.out.decisions = <<"deny">>

HasHeader(name, value) ==
    \E i \in 1..Len(last.out.headersOut) :
        last.out.headersOut[i] = [name |-> name, value |-> value]

MadeCall(op, key) ==
    \E i \in 1..Len(last.calls) : last.calls[i].op = op /\ last.calls[i].key = key

\* the dictionary m with key bound to an entry written at instant t
WithEntry(m, key, t, ttl) ==
    [k \in DOMAIN m \cup {key} |->
        IF k = key THEN [value |-> NumV(Add(t, ttl)), ttl |-> ttl, evictAt |-> Add(t, ttl)]
        ELSE m[k]]

Without(m, key) == [k \in DOMAIN m \ {key} |-> m[k]]

TwoHours == Ms(0, 7200000)

OneHour == Ms(0, 3600000)

\* C1 as stated: an address written by register or adminRegister at T with
\* TTL D and not cancelled since is allowed by every check at T' < T + D,
\* for every such write (last.before.deadline is the latest T + D of them).
C1_AllowedUntilAnyDeadline ==
    (last.op \in CheckOps /\ last.before.live /\ Less(last.at, last.before.deadline))
        => LastAllows

\* C1 amended: an address written by register or adminRegister at T with
\* TTL D, with no cancel and no later register or adminRegister of it since,
\* is allowed by every check at T' with T <= T' < T + D.
C1_AllowedBeforeExpiry ==
    (/\ last.op \in CheckOps
     /\ last.before.live
     /\ LessEq(last.before.regAt, last.at)
     /\ Less(last.at, Add(last.before.regAt, last.before.regTtl)))
        => LastAllows

C1_Witness ==
    /\ last.op \in CheckOps
    /\ last.before.live
    /\ Less(last.before.regAt, last.at)
    /\ Less(last.at, Add(last.before.regAt, last.before.regTtl))
    /\ LastAllows

\* C2: a check at T' >= T + D of an address registered at T with TTL D and
\* neither renewed nor re-registered denies, deletes the entry if it is
\* still there, and leaves the address absent; the check that follows it
\* denies as well.
C2_ExpiredDeniedAndPurged ==
    /\ (last.op \in CheckOps /\ Lapsed(last.before, last.at))
          => /\ LastDenies
             /\ LastKey \in DOMAIN last.pre => MadeCall("delete", LastKey)
             /\ LastKey \notin DOMAIN last.post
    /\ (last.op \in CheckOps /\ last.prev = [note |-> "lapsed", subject |-> LastSubject])
          => LastDenies /\ LastKey \notin DOMAIN last.post

C2_Witness ==
    /\ last.op \in CheckOps
    /\ Lapsed(last.before, last.at)
    /\ last.at = Add(last.before.regAt, last.before.regTtl)
    /\ LastKey \in DOMAIN last.pre
    /\ LastKey \notin DOMAIN last.post
    /\ LastDenies

\* C3: a check of a non-empty address without an entry denies, http_verify
\* with status 403 and the header X-VShield-Reason: IP_NOT_REGISTERED, and
\* the dictionary is left as it was.
C3_UnregisteredDeniedWithReason ==
    (/\ last.op \in CheckOps
     /\ configured
     /\ ~Falsy(LastSubject)
     /\ LastKey \notin DOMAIN last.pre)
        => /\ LastDenies
           /\ last.post = last.pre
           /\ last.op = "http_verify"
                 => Returned(403) /\ HasHeader("X-VShield-Reason", "IP_NOT_REGISTERED")

\* C4: a check at T that finds a valid entry with 0 < expiresAt - T <=
\* 3,600,000 allows and rewrites the entry to expiresAt = T + 7,200,000
\* with backing TTL 7,200,000.
NearExpiry ==
    /\ last.op \in CheckOps
    /\ configured
    /\ ~Falsy(LastSubject)
    /\ LastKey \in DOMAIN last.pre
    /\ last.pre[LastKey].value.t = "number"
    /\ Less(last.at, last.pre[LastKey].value.n)
    /\ LessEq(Sub(last.pre[LastKey].value.n, last.at), OneHour)

C4_RenewalNearExpiry ==
    NearExpiry
        => /\ LastAllows
           /\ LastKey \in DOMAIN last.post
           /\ last.post[LastKey].value = NumV(Add(last.at, TwoHours))
           /\ last.post[LastKey].ttl = TwoHours
           /\ MadeCall("set", LastKey)

C4_Witness ==
    /\ NearExpiry
    /\ Sub(last.pre[LastKey].value.n, last.at) = OneHour
    /\ LastAllows
    /\ last.post[LastKey].value = NumV(Add(last.at, TwoHours))

\* C5: a check with an empty source address, or without the dictionary,
\* never allows: it denies with the reason STORE_UNAVAILABLE and makes no
\* call on the dictionary.
C5_FailClosedWithReason ==
    (last.op \in CheckOps /\ (Falsy(LastSubject) \/ ~configured))
        => /\ ~LastAllows
           /\ LastDenies
           /\ last.calls = NoCalls
           /\ last.post = last.pre
           /\ last.op = "http_verify" => HasHeader("X-VShield-Reason", "STORE_UNAVAILABLE")

\* C6: register with a source address succeeds and makes exactly one
\* dictionary call, set(remoteAddress, T + 7,200,000, 7,200,000), whatever
\* the query arguments; every other entry is left as it was.
C6_RegisterOwnAddressOnly ==
    /\ (last.op = "register" /\ configured /\ ~Falsy(last.r.remoteAddress))
          => Returned(200)
    /\ (last.op = "register" /\ Returned(200))
          => /\ last.calls = <<[op |-> "set", key |-> last.r.remoteAddress.s,
                                value |-> NumV(Add(last.at, TwoHours)), ttl |-> TwoHours]>>
             /\ last.post = WithEntry(last.pre, last.r.remoteAddress.s, last.at, TwoHours)

C6_Witness ==
    /\ last.op = "register"
    /\ Returned(200)
    /\ ~Falsy(last.r.args.ip)
    /\ last.r.args.ip # last.r.remoteAddress
    /\ last.r.args.ip.s \in DOMAIN last.pre
    /\ last.post = WithEntry(last.pre, last.r.remoteAddress.s, last.at, TwoHours)

\* C7: adminRegister(targetIp, rawTimeout) at T succeeds and sets the entry
\* of targetIp to expiresAt = T + E with backing TTL E, E the timeout when
\* it denotes a positive integer and 7,200,000 otherwise.
C7_AdminRegisterEffectiveTtl ==
    (last.op = "adminRegister" /\ configured /\ ~Falsy(last.r.args.ip))
        => /\ Returned(200)
           /\ last.post = WithEntry(last.pre, last.r.args.ip.s, last.at,
                                    RegistrationTtl("adminRegister", last.r))

C7_Witness ==
    /\ last.op = "adminRegister"
    /\ Returned(200)
    /\ last.r.args.timeout = Str(<<"1", ".", "5">>)
    /\ last.post[last.r.args.ip.s].value = NumV(Add(last.at, TwoHours))
    /\ last.post[last.r.args.ip.s].ttl = TwoHours

\* C8: cancel and adminCancel of an address succeed whether or not it has
\* an entry and leave it absent and every other entry as it was; on an
\* absent address, as after a first cancel, the dictionary is unchanged.
C8_CancelIdempotent ==
    (last.op \in {"cancel", "adminCancel"} /\ configured /\ ~Falsy(LastSubject))
        => /\ Returned(200)
           /\ last.post = Without(last.pre, LastKey)
           /\ LastKey \notin DOMAIN last.pre => last.post = last.pre

C8_Witness ==
    /\ last.op \in {"cancel", "adminCancel"}
    /\ last.prev = [note |-> "cancelled", subject |-> LastSubject]
    /\ Returned(200)
    /\ last.pre # <<>>
    /\ last.post = last.pre

\* C9: a mutating call without its address fails with a client error and
\* makes no dictionary call: register and cancel without a source address
\* (400, "Missing client IP"), adminRegister and adminCancel without the ip
\* argument (400, "Missing query parameter: ip").
C9_MissingAddressRejected ==
    (last.op \in SelfOps \cup AdminOps /\ configured /\ Falsy(LastSubject))
        => /\ last.out.thrown = "none"
           /\ last.out.returns =
                 <<[status |-> 400,
                    body |-> IF last.op \in SelfOps THEN Text("Missing client IP")
                             ELSE Text("Missing query parameter: ip")]>>
           /\ last.calls = NoCalls
           /\ last.post = last.pre

C9_Witness ==
    /\ last.op = "register"
    /\ configured
    /\ Falsy(last.r.remoteAddress)
    /\ last.pre # <<>>
    /\ Returned(400)
    /\ last.post = last.pre

\* C10: adminWhiteList succeeds with status 200 and one row for every key
\* whose value converts to a number, none for any other key, and leaves the
\* dictionary as it was.
NumericKeys(m) == {k \in DOMAIN m : ~IsNaN(ToNumber(m[k].value))}

C10_ListsEveryNumericEntry ==
    (last.op = "adminWhiteList" /\ configured)
        => /\ Returned(200)
           /\ LET rows == last.out.returns[1].body.rows
              IN  /\ Len(rows) = Cardinality(NumericKeys(last.pre))
                  /\ \A k \in NumericKeys(last.pre) : \E i \in 1..Len(rows) : rows[i].ip = k
           /\ last.post = last.pre

\* the literal parts of the lines the handlers write with r.log and r.error
LogTexts ==
    {"http_verify allowed IP address: ", "http_verify denied IP address: ",
     "stream_verify allowed IP address: ", "stream_verify denied IP address: ",
     "vs_ip shared dict is not configured"}

NoField == [present |-> FALSE, word |-> "", v |-> Undefined]

\* the field `key=...` of a written line.  A line is one of LogTexts, which
\* are prose without a field, followed at most by the address, so a field
\* could only come in with an address that has a `=` in it.
Field(line, key) ==
    IF line.pre \in LogTexts /\ line.post = "" /\ line.rows = <<>>
       /\ \A i \in 1..Len(line.ip) : line.ip[i] # "="
    THEN NoField
    ELSE [present |-> TRUE, word |-> "", v |-> Str(line.ip)]

\* the action an audit record is to name for the last call
AuditAction ==
    CASE last.op = "register" -> "register_self"
      [] last.op = "cancel" -> "cancel_self"
      [] last.op = "adminRegister" -> "admin_register"
      [] last.op = "adminCancel" -> "admin_cancel"
      [] last.op \in CheckOps /\ LastAllows -> "verify_allow"
      [] OTHER -> "verify_deny"

\* the r.log lines of the last call that are audit records: an actor, the
\* source or the target address, an action and an outcome
AuditRecords ==
    {i \in 1..Len(last.out.logs) :
        LET line == last.out.logs[i]
        IN  /\ Field(line, "actor").present
            /\ Field(line, "source_ip").present \/ Field(line, "target_ip").present
            /\ Field(line, "action").present
            /\ Field(line, "status").present}

\* C11: every call of register, cancel, adminRegister, adminCancel,
\* http_verify and stream_verify writes exactly one audit record, and the
\* record names the action of the call.
C11_OneAuditRecordPerCall ==
    (last.op \in SelfOps \cup AdminOps \cup CheckOps)
        => /\ Cardinality(AuditRecords) = 1
           /\ \A i \in AuditRecords : Field(last.out.logs[i], "action").word = AuditAction

\* the handler of the entry point op
Call(op, sh, r, t) ==
    CASE op = "http_verify" -> http_verify(configured, sh, r, t)
      [] op = "stream_verify" -> stream_verify(configured, sh, r, t)
      [] op = "register" -> register(configured, sh, r, t)
      [] op = "cancel" -> cancel(configured, sh, r, t)
      [] op = "adminWhiteList" -> adminWhiteList(configured, sh, r, t)
      [] op = "adminRegister" -> adminRegister(configured, sh, r, t)
      [] op = "adminCancel" -> adminCancel(configured, sh, r, t)

\* C12: the audit record of a call names r.variables.vshield_user as the
\* actor, or an anonymous marker without one; the same call without the
\* identity returns the same and leaves the same dictionary; and the record
\* of a successful adminRegister has the detail ttl_ms=E, E the TTL written.
C12_AuditAttribution ==
    (last.op \in SelfOps \cup AdminOps \cup CheckOps)
        => /\ \E i \in 1..Len(last.out.logs) :
                 LET actor == Field(last.out.logs[i], "actor")
                 IN  /\ actor.present
                     /\ IF Falsy(last.r.variables.vshield_user)
                        THEN actor.word = "anonymous"
                        ELSE actor.v = last.r.variables.vshield_user
           /\ LET bare == Call(last.op, SharedDict(last.pre),
                               [last.r EXCEPT !.variables = Anonymous], last.at)
              IN  /\ bare.sh.map = last.post
                  /\ bare.out.returns = last.out.returns
                  /\ bare.out.decisions = last.out.decisions
           /\ (last.op = "adminRegister" /\ Returned(200))
                 => \E i \in 1..Len(last.out.logs) :
                       LET detail == Field(last.out.logs[i], "detail")
                       IN  /\ detail.present
                           /\ detail.word = "ttl_ms"
                           /\ detail.v = NumV(last.post[last.r.args.ip.s].ttl)

\* the set calls of the last handler call
LastSets == {i \in 1..Len(last.calls) : last.calls[i].op = "set"}

\* C13: every set made by register, adminRegister or the renewal of a
\* check writes the value now + ttl with the backing ttl the same positive
\* integer ttl, now the clock at the write; and in every reachable state
\* the instant the zone evicts an entry at is the entry's value.
C13_ExpiryAndBackingTtlAgree ==
    /\ \A i \in LastSets :
          /\ isPositiveInteger(last.calls[i].ttl)
          /\ last.calls[i].value = NumV(Add(last.at, last.calls[i].ttl))
    /\ \A k \in DOMAIN whiteList :
          /\ isPositiveInteger(whiteList[k].ttl)
          /\ whiteList[k].value = NumV(whiteList[k].evictAt)

C13_Witness ==
    /\ last.op \in CheckOps
    /\ LastSets # {}
    /\ IP1 \in DOMAIN whiteList /\ IP2 \in DOMAIN whiteList
    /\ whiteList[IP1].ttl = TwoHours
    /\ whiteList[IP1].evictAt = Add(last.at, TwoHours)
    /\ whiteList[IP2].ttl = Ms(0, 600000)
    /\ whiteList[IP2].value = NumV(whiteList[IP2].evictAt)

\* the last call is a check of an address whose entry, as the call found
\* it, is a number
CheckOfEntry ==
    /\ last.op \in CheckOps
    /\ configured
    /\ ~Falsy(LastSubject)
    /\ LastKey \in DOMAIN last.pre
    /\ last.pre[LastKey].value.t = "number"

\* ... and the entry has not expired at the instant of the call
CheckOfValidEntry == CheckOfEntry /\ Less(last.at, last.pre[LastKey].value.n)

\* C17: a check decides exactly once.  http_verify calls r.return once,
\* with status 200 when the address has a valid entry and a status outside
\* 200..299 otherwise; stream_verify calls exactly one of allow() and
\* deny(), once; for every dictionary and every address, the empty one too.
C17_ExactlyOneDecision ==
    /\ last.op = "http_verify"
          => /\ last.out.thrown = "none"
             /\ last.out.decisions = <<>>
             /\ Len(last.out.returns) = 1
             /\ IF CheckOfValidEntry THEN last.out.returns[1].status = 200
                ELSE last.out.returns[1].status \notin 200..299
    /\ last.op = "stream_verify"
          => /\ last.out.thrown = "none"
             /\ last.out.returns = <<>>
             /\ last.out.decisions = IF CheckOfValidEntry THEN <<"allow">> ELSE <<"deny">>

C17_Witness ==
    /\ last.op = "stream_verify"
    /\ configured
    /\ Falsy(LastSubject)
    /\ last.pre # <<>>
    /\ last.out.decisions = <<"deny">>
    /\ last.out.returns = <<>>

\* C18: a check at T of a valid entry with expiresAt - T > 3,600,000 allows
\* and makes no set and no delete: its one dictionary call is the get, and
\* the whole dictionary is as before.
FarFromExpiry ==
    /\ CheckOfValidEntry
    /\ Less(OneHour, Sub(last.pre[LastKey].value.n, last.at))

C18_NoWriteFarFromExpiry ==
    FarFromExpiry
        => /\ LastAllows
           /\ \A i \in 1..Len(last.calls) : last.calls[i].op = "get"
           /\ last.post = last.pre

C18_Witness ==
    /\ FarFromExpiry
    /\ Less(last.before.regAt, last.at)
    /\ LastAllows
    /\ Len(last.calls) = 1
    /\ last.post = last.pre

\* C19: adminWhiteList at T lists an entry only when its expiresAt > T; an
\* entry with expiresAt <= T is not listed and is removed.
Listed(k) ==
    \E i \in 1..Len(last.out.returns[1].body.rows) :
        last.out.returns[1].body.rows[i].ip = k

C19_ListDropsExpired ==
    (last.op = "adminWhiteList" /\ configured /\ Returned(200))
        => \A k \in NumericKeys(last.pre) :
              IF Less(last.at, last.pre[k].value.n)
              THEN Listed(k) /\ k \in DOMAIN last.post
              ELSE ~Listed(k) /\ k \notin DOMAIN last.post

\* the decision a handler result carries
ResultAllows(res) ==
    \/ /\ Len(res.out.returns) = 1
       /\ res.out.returns[1].status = 200
    \/ res.out.decisions = <<"allow">>

\* C20: http_verify and stream_verify decide alike and leave the same
\* dictionary: the last check, made by one of them, is compared with what
\* the other does on the same dictionary, instant and address.
C20_HttpAndStreamAgree ==
    /\ last.op = "http_verify"
          => LET other == stream_verify(configured, SharedDict(last.pre), last.r, last.at)
             IN  /\ ResultAllows(other) <=> LastAllows
                 /\ ~ResultAllows(other) <=> LastDenies
                 /\ other.sh.map = last.post
    /\ last.op = "stream_verify"
          => LET other == http_verify(configured, SharedDict(last.pre), last.r, last.at)
             IN  /\ ResultAllows(other) <=> LastAllows
                 /\ ~ResultAllows(other) <=> LastDenies
                 /\ other.sh.map = last.post

C20_Witness ==
    /\ last.op = "http_verify"
    /\ LastAllows
    /\ last.post # last.pre
    /\ stream_verify(configured, SharedDict(last.pre), last.r, last.at).sh.map = last.post
    /\ stream_verify(configured, SharedDict(last.pre), last.r, last.at).out.decisions = <<"allow">>


\* ------------------------------------------------------------------------
\* Claims about the worker processes (SpecConc).  last is the last step a
\* worker took: the zone before and after it and the zone calls it made.
\* ------------------------------------------------------------------------

\* C14: once a cancel of IP1 has completed, IP1 has no entry until a later
\* register completes (hist[IP1].live is set by the set of a register and
\* cleared by the delete of a cancel); in particular the renewal of a
\* check that read the entry before the cancel does not bring it back.
C14_CancelledStaysAbsent == ~hist[IP1].live => IP1 \notin DOMAIN whiteList

\* C15: the delete a check makes removes the entry of IP1 only when the
\* entry that is in the zone at the moment of the delete has expired; an
\* entry a register wrote after the check's get survives it.
C15_PurgeOnlyExpired ==
    (last.op \in CheckOps /\ MadeCall("delete", IP1) /\ IP1 \in DOMAIN last.pre)
        => LessEq(last.pre[IP1].value.n, last.at)

\* the workers have all made a check and finished it, and each step of
\* each check found a valid entry of IP1 in the zone
RaceOver ==
    \A w \in Workers :
        /\ procs[w].op \in CheckOps
        /\ procs[w].pc = "done"
        /\ procs[w].onValid

\* C16: when the workers check IP1 concurrently, the entry being valid and
\* within the renewal threshold and no register or cancel among them, every
\* check allows and the entry at the end is valid, with backing TTL
\* 7,200,000 and expiresAt = t + 7,200,000 for the clock t one of the
\* checks read for its write.
C16_RenewalRaceSafe ==
    (/\ RaceOver
     /\ hist[IP1].live
     /\ LessEq(Sub(Add(hist[IP1].regAt, hist[IP1].regTtl), StartTime),
               TTL_REFRESH_THRESHOLD_MS))
        => /\ \A w \in Workers : procs[w].ok
           /\ HoldsValid(IP1)
           /\ whiteList[IP1].ttl = TwoHours
           /\ \E w \in Workers : whiteList[IP1].value = NumV(Add(procs[w].ts, TwoHours))

\* C16, the part that holds: while the clock has not reached the expiry of
\* the entry the race began on, every check of the race allows and the
\* entry at the end is the renewal of one of them.
C16_SafeBeforeExpiry ==
    (/\ RaceOver
     /\ hist[IP1].live
     /\ Less(now, Add(hist[IP1].regAt, hist[IP1].regTtl)))
        => /\ \A w \in Workers : procs[w].ok
           /\ HoldsValid(IP1)
           /\ whiteList[IP1].ttl = TwoHours
           /\ \E w \in Workers : whiteList[IP1].value = NumV(Add(procs[w].ts, TwoHours))


\* ------------------------------------------------------------------------
\* Claims about the life of an entry (Spec, SpecLive).
\* ------------------------------------------------------------------------

\* the keys the last call found and left in the dictionary
Kept == DOMAIN last.pre \cap DOMAIN last.post

LiveInstants ==
    LET RECURSIVE After(_)
        After(i) == IF i = 0 THEN StartTime ELSE Add(After(i - 1), OneHour)
    IN  {After(i) : i \in 0..(MaxTicks + 2 * MaxOps)}

\* the TTL the entries of an address are written with in SpecLive: IP1 by
\* register and by renewal, IP2 by adminRegister with timeout=600000
LiveTtl(k) == IF k = IP1 THEN TwoHours ELSE Ms(0, 600000)

\* the values set can write for the address k in SpecLive
LiveValues(k) == {NumV(Add(t, LiveTtl(k))) : t \in LiveInstants}

HoldsValue(k, v) == k \in DOMAIN whiteList /\ whiteList[k].value = v

\* C22: with time passing and the zone evicting, an entry written with
\* expiresAt v is eventually gone from the zone or written anew, also when
\* no check reads it again (v ranges over every value an entry has); and a
\* check of an address without an entry denies and leaves it without one.
C22_EntriesEventuallyGone ==
    /\ \A k \in {IP1, IP2} : \A v \in LiveValues(k) : HoldsValue(k, v) ~> ~HoldsValue(k, v)
    /\ [](\A k \in DOMAIN whiteList : whiteList[k].value \in LiveValues(k))
    /\ []((last.op \in CheckOps /\ ~Falsy(LastSubject) /\ LastKey \notin DOMAIN last.pre)
             => LastDenies /\ LastKey \notin DOMAIN last.post)

\* the entry the last call registered has gone without a call since
C22_Witness ==
    /\ last.op \in {"register", "adminRegister"}
    /\ Returned(200)
    /\ LastKey \in DOMAIN last.post
    /\ LessEq(last.post[LastKey].evictAt, now)
    /\ LastKey \notin DOMAIN whiteList

====
